---- MODULE Spec2Model ----
(***************************************************************************)
(* Model of mit-ccc/twitter-expand-influencers:                            *)
(*   expand_influencers.py        read_seed_set, get_expanded_users        *)
(*   generate_powertrack_rules.py handles_to_rules                         *)
(*   influencers_to_csv.py        the CSV export script                    *)
(*                                                                         *)
(* Text is a sequence of one-character strings.  A Python dict is a pair   *)
(* (keys in insertion order, key -> value), since sort() is stable and the *)
(* insertion order therefore shows in the ranked lists.  The size          *)
(* constants of the scripts (LISTENER_SET_SIZE, INFLUENCER_SET_SIZE,       *)
(* MAX_FOLLOWERS, MAX_FRIENDS, the 500-row cap) are scaled down so that    *)
(* the truncations happen on small inputs; thresholds keep their values.   *)
(***************************************************************************)
EXTENDS Integers, Sequences, FiniteSets, TLC

VARIABLES
    pc,                           \* position in get_expanded_users
    error,                        \* exception that ended the run, or "none"
    seed_file,                    \* content of the seed file
    seed_set,                     \* list(set(...)) returned by read_seed_set
    i,                            \* handles of seed_set already processed
    follower_to_seed_handle_set,  \* dict: follower id -> set of handles
    civic_listeners,              \* list of (id, engagement_count)
    j,                            \* listeners already processed
    influencer_to_listener_set,   \* dict: followee id -> set of listener ids
    civic_influencers,            \* list of (id, civic_listeners)
    k,                            \* candidates already processed
    output_records,               \* records emitted so far
    calls,                        \* history of the external calls and results
    handles,                      \* handles_to_rules: argument
    ruleset_name,                 \* handles_to_rules: argument
    rule_i,                       \* handles_to_rules: loop variable i
    output_updates,               \* handles_to_rules: payloads so far
    rules_pc,                     \* handles_to_rules: position
    stdin,                        \* influencers_to_csv: input records
    line_no,                      \* influencers_to_csv: lines consumed
    rows,                         \* influencers_to_csv: (metric, record) kept
    csv_rows,                     \* influencers_to_csv: data rows written
    csv_pc                        \* influencers_to_csv: position

vars == <<pc, error, seed_file, seed_set, i, follower_to_seed_handle_set,
          civic_listeners, j, influencer_to_listener_set, civic_influencers,
          k, output_records, calls, handles, ruleset_name, rule_i,
          output_updates, rules_pc, stdin, line_no, rows, csv_rows, csv_pc>>

expand_vars == <<pc, error, seed_file, seed_set, i,
                 follower_to_seed_handle_set, civic_listeners, j,
                 influencer_to_listener_set, civic_influencers, k,
                 output_records, calls>>

rules_vars == <<handles, ruleset_name, rule_i, output_updates, rules_pc>>

csv_vars == <<stdin, line_no, rows, csv_rows, csv_pc>>

----------------------------------------------------------------------------
(* Bounds of the model *)

MaxFileLen == 4        \* seed files of up to this many characters
NumIds == 3            \* identities 1..NumIds
MaxHandles == 65       \* handle lists of up to this many handles
MaxLines == 4          \* CSV input of up to this many records

(* Constants of the scripts.  The sizes are scaled down (the source has   *)
(* LISTENER_SET_SIZE = 100, INFLUENCER_SET_SIZE = 1000, MAX_FOLLOWERS =    *)
(* MAX_FRIENDS = 100000 and a cap of 500 rows), keeping                    *)
(* LISTENER_SET_SIZE <= INFLUENCER_SET_SIZE; the others have their values. *)

LISTENER_SET_SIZE == 2
INFLUENCER_SET_SIZE == 2
MAX_FOLLOWERS == 2
MAX_FRIENDS == 2
NUM_TWITTER_USERS == 500000000
MIN_CIVIC_ODDS_RATIO == 10
NUM_HANDLES_PER_RULE == 30
MIN_FOLLOWERS_CSV == 20
MIN_RATIO_CSV == 200
MAX_ROWS_CSV == 2

----------------------------------------------------------------------------
(* Generic helpers *)

Range(s) == {s[n] : n \in DOMAIN s}

Min2(a, b) == IF a < b THEN a ELSE b

SeqsUpTo(S, n) == UNION {[1..m -> S] : m \in 0..n}

Perms(S) == {p \in [1..Cardinality(S) -> S] : Range(p) = S}

\* Faulty variant: an element goes in front of the elements of equal key, which
\* reverses the input order among ties.
RECURSIVE InsertDescFront(_, _)
InsertDescFront(p, s) ==
    IF s = <<>> THEN <<p>>
    ELSE IF Head(s)[1] > p[1]
         THEN <<Head(s)>> \o InsertDescFront(p, Tail(s))
         ELSE <<p>> \o s

\* Place the pair p = (key, item) in the descending list s, behind every pair
\* whose key is greater or equal.
RECURSIVE InsertDesc(_, _)
InsertDesc(p, s) ==
    IF s = <<>> THEN <<p>>
    ELSE IF Head(s)[1] >= p[1]
         THEN <<Head(s)>> \o InsertDesc(p, Tail(s))
         ELSE <<p>> \o s

RECURSIVE SortPairsDesc(_)
SortPairsDesc(ps) ==
    IF ps = <<>> THEN <<>>
    ELSE InsertDesc(ps[Len(ps)], SortPairsDesc(SubSeq(ps, 1, Len(ps) - 1)))

\* list.sort(key=key, reverse=True): descending by key, and stable (elements
\* of equal key keep their order in the list).
\* keys[n] is the key of s[n].
SortDesc(s, keys) ==
    LET ps == SortPairsDesc([n \in DOMAIN s |-> <<keys[n], s[n]>>])
    IN  [n \in DOMAIN s |-> ps[n][2]]

----------------------------------------------------------------------------
(* read_seed_set *)

Chars == {"a", "b", "@", " ", "\n"}

Spaces == {" ", "\n"}

IsSpace(c) == c \in Spaces

RECURSIVE LStrip(_)
LStrip(s) ==
    IF s = <<>> THEN s
    ELSE IF IsSpace(Head(s)) THEN LStrip(Tail(s)) ELSE s

RECURSIVE RStrip(_)
RStrip(s) ==
    IF s = <<>> THEN s
    ELSE IF IsSpace(s[Len(s)]) THEN RStrip(SubSeq(s, 1, Len(s) - 1)) ELSE s

\* str.strip()
Strip(s) == RStrip(LStrip(s))

\* str.replace(c, "")
Remove(s, c) == SelectSeq(s, LAMBDA x : x # c)

\* Index of the first element of s that is in S, or Len(s) + 1.
FirstIndex(s, S) ==
    IF \E n \in DOMAIN s : s[n] \in S
    THEN CHOOSE n \in DOMAIN s : s[n] \in S /\ \A m \in 1..(n - 1) : s[m] \notin S
    ELSE Len(s) + 1

\* str.split(sep) for a one-character sep: empty pieces are kept.
RECURSIVE SplitOn(_, _)
SplitOn(s, sep) ==
    LET n == FirstIndex(s, {sep})
    IN  IF n > Len(s) THEN <<s>>
        ELSE <<SubSeq(s, 1, n - 1)>> \o SplitOn(SubSeq(s, n + 1, Len(s)), sep)

\* str.split(): pieces between runs of whitespace, none of them empty.
RECURSIVE SplitSpace(_)
SplitSpace(s) ==
    LET t == LStrip(s)
        n == FirstIndex(t, Spaces)
    IN  IF t = <<>> THEN <<>>
        ELSE <<SubSeq(t, 1, n - 1)>> \o SplitSpace(SubSeq(t, n, Len(t)))

\* "if line" of the comprehension: the line is not the empty string.
LineKept(line) == line # <<>>

\* line.strip().replace("@", "").split(): the tokens whose first is taken.
LineTokens(line) == SplitSpace(Remove(Strip(line), "@"))

\* read_seed_set: [raised, handles].  [0] of an empty token list raises
\* IndexError; otherwise the set of first tokens is returned.
read_seed_set(content) ==
    LET lines == SelectSeq(SplitOn(content, "\n"), LineKept)
        toks == [n \in DOMAIN lines |-> LineTokens(lines[n])]
    IN  IF \E n \in DOMAIN toks : toks[n] = <<>>
        THEN [raised |-> TRUE, handles |-> {}]
        ELSE [raised |-> FALSE, handles |-> {toks[n][1] : n \in DOMAIN toks}]

----------------------------------------------------------------------------
(* get_expanded_users: data *)

Ids == 1..NumIds

\* Follower counts a fetched user record may carry: zero, and the two values
\* on either side of the relevance threshold of a candidate with one listener.
FollowerCounts == {0, 23809523, 23809524}

\* Seed files of the runs: no handle, one, two, a duplicate, a blank line.
ExpandSeedFiles ==
    { <<>>,
      <<"a">>,
      <<"a", "\n", "b">>,
      <<"@", "a", "\n", "a", "\n">>,
      <<"a", "\n", " ">> }

EmptyDict == [keys |-> <<>>, val |-> <<>>]

\* Faulty variant: the set of a key is overwritten instead of extended.
DictAddOverwrite(d, key, elem) ==
    IF key \in Range(d.keys)
    THEN [d EXCEPT !.val = [x \in DOMAIN d.val |-> IF x = key THEN {elem} ELSE d.val[x]]]
    ELSE [keys |-> Append(d.keys, key),
          val |-> [x \in Range(d.keys) \cup {key} |->
                      IF x = key THEN {elem} ELSE d.val[x]]]

\* if key not in d: d[key] = set(); d[key].add(elem)
DictAdd(d, key, elem) ==
    IF key \in Range(d.keys)
    THEN [d EXCEPT !.val = [x \in DOMAIN d.val |->
                               IF x = key THEN d.val[x] \cup {elem} ELSE d.val[x]]]
    ELSE [keys |-> Append(d.keys, key),
          val |-> [x \in Range(d.keys) \cup {key} |->
                      IF x = key THEN {elem} ELSE d.val[x]]]

\* The inner for loop: every id of the fetched list is added under elem.
RECURSIVE AddAll(_, _, _)
AddAll(d, list, elem) ==
    IF list = <<>> THEN d
    ELSE AddAll(DictAdd(d, Head(list), elem), Tail(list), elem)

\* list(d.items())
Items(d) == [n \in DOMAIN d.keys |-> <<d.keys[n], d.val[d.keys[n]]>>]

\* What a relation fetch can do: raise TweepError, or yield at most max ids
\* (Cursor.items(max) stops after max items).  Ids may repeat.
RelationOutcomes(max) ==
    {[ok |-> FALSE, items |-> <<>>]}
        \cup {[ok |-> TRUE, items |-> s] : s \in SeqsUpTo(Ids, max)}

\* handle_to_followers / id_to_followees: the ids, or [] after a TweepError.
handle_to_followers(outcome) == IF outcome.ok THEN outcome.items ELSE <<>>

id_to_followees(outcome) == IF outcome.ok THEN outcome.items ELSE <<>>

\* What get_user can do: raise TweepError, or return a record.
MetadataOutcomes ==
    {[ok |-> FALSE, followers_count |-> 0]}
        \cup {[ok |-> TRUE, followers_count |-> f] : f \in FollowerCounts}

\* Faulty variant: the whole ranked list is kept.
KeepAll(f_items, size) == [n \in DOMAIN f_items |-> <<f_items[n][1], Cardinality(f_items[n][2])>>]

\* [(item[0], len(item[1])) for item in f_items[:size]]
KeepTop(f_items, size) ==
    [n \in 1..Min2(size, Len(f_items)) |-> <<f_items[n][1], Cardinality(f_items[n][2])>>]

\* f_items.sort(key=lambda x: len(x[1]), reverse=True)
RankItems(d) ==
    LET f_items == Items(d)
    IN  SortDesc(f_items, [n \in DOMAIN f_items |-> Cardinality(f_items[n][2])])

\* Faulty variant: the odds of being followed by a listener lose the "+ 1".
CivicOddsDenNoPlusOne(num_civic_listeners) == INFLUENCER_SET_SIZE - num_civic_listeners

\* INFLUENCER_SET_SIZE + 1 - num_civic_listeners
CivicOddsDen(num_civic_listeners) == INFLUENCER_SET_SIZE + 1 - num_civic_listeners

\* add_civic_stats: the record's _json afterwards (keys = the keys it holds),
\* and whether a division by zero was raised.  civic_odds_ratio is the exact
\* quotient (n / CivicOddsDen(n)) / (f / (NUM_TWITTER_USERS - f)) = num / den.
add_civic_stats(id, num_followers, num_civic_listeners) ==
    LET base == [id |-> id, followers_count |-> num_followers,
                 civic_listeners |-> num_civic_listeners,
                 civic_odds_ratio |-> [num |-> 0, den |-> 1],
                 keys |-> {"id", "followers_count", "civic_listeners"}]
    IN  IF num_followers = 0
        THEN [raised |-> FALSE, json |-> base]
        ELSE IF CivicOddsDen(num_civic_listeners) = 0
                  \/ NUM_TWITTER_USERS - num_followers = 0
        THEN [raised |-> TRUE, json |-> base]
        ELSE [raised |-> FALSE,
              json |-> [base EXCEPT
                  !.civic_odds_ratio =
                      [num |-> num_civic_listeners * (NUM_TWITTER_USERS - num_followers),
                       den |-> CivicOddsDen(num_civic_listeners) * num_followers],
                  !.keys = @ \cup {"civic_odds_ratio"}]]

\* ratio >= m, for the quotient ratio = num / den
RatioGE(ratio, m) ==
    IF ratio.den > 0 THEN ratio.num >= m * ratio.den
                     ELSE ratio.num <= m * ratio.den

Call(op, key, ok, items, followers_count) ==
    [op |-> op, key |-> key, ok |-> ok, items |-> items,
     followers_count |-> followers_count]

----------------------------------------------------------------------------
(* get_expanded_users: steps *)

RulesIdle ==
    /\ handles = <<>>
    /\ ruleset_name = "none"
    /\ rule_i = 0
    /\ output_updates = <<>>
    /\ rules_pc = "idle"

CsvIdle ==
    /\ stdin = <<>>
    /\ line_no = 0
    /\ rows = <<>>
    /\ csv_rows = <<>>
    /\ csv_pc = "idle"

ExpandStart(files) ==
    /\ pc = "start"
    /\ error = "none"
    /\ seed_file \in files
    /\ seed_set = <<>>
    /\ i = 0
    /\ follower_to_seed_handle_set = EmptyDict
    /\ civic_listeners = <<>>
    /\ j = 0
    /\ influencer_to_listener_set = EmptyDict
    /\ civic_influencers = <<>>
    /\ k = 0
    /\ output_records = <<>>
    /\ calls = <<>>

Init == ExpandStart(ExpandSeedFiles) /\ RulesIdle /\ CsvIdle

\* seed_set = read_seed_set(seed_filename); list(set(...)) has no fixed order.
ReadSeedSet ==
    /\ pc = "start"
    /\ LET r == read_seed_set(seed_file)
       IN  IF r.raised
           THEN /\ pc' = "error"
                /\ error' = "IndexError:read_seed_set"
                /\ UNCHANGED seed_set
           ELSE /\ pc' = "pass1"
                /\ seed_set' \in Perms(r.handles)
                /\ UNCHANGED error
    /\ UNCHANGED <<seed_file, i, follower_to_seed_handle_set, civic_listeners,
                   j, influencer_to_listener_set, civic_influencers, k,
                   output_records, calls, rules_vars, csv_vars>>

\* One iteration of "for handle in seed_set".
FetchFollowers ==
    /\ pc = "pass1"
    /\ i < Len(seed_set)
    /\ \E outcome \in RelationOutcomes(MAX_FOLLOWERS) :
          LET handle == seed_set[i + 1]
          IN  /\ follower_to_seed_handle_set' =
                     AddAll(follower_to_seed_handle_set,
                            handle_to_followers(outcome), handle)
              /\ calls' = Append(calls, Call("followers_of", handle, outcome.ok,
                                             outcome.items, 0))
    /\ i' = i + 1
    /\ UNCHANGED <<pc, error, seed_file, seed_set, civic_listeners, j,
                   influencer_to_listener_set, civic_influencers, k,
                   output_records, rules_vars, csv_vars>>

\* Lines 140-148: rank the followers, log, keep the top LISTENER_SET_SIZE.
\* The log call evaluates f_items[0], an IndexError on an empty list.
RankListeners ==
    /\ pc = "pass1"
    /\ i = Len(seed_set)
    /\ LET f_items == RankItems(follower_to_seed_handle_set)
       IN  IF f_items = <<>>
           THEN /\ pc' = "error"
                /\ error' = "IndexError:listeners"
                /\ UNCHANGED civic_listeners
           ELSE /\ pc' = "pass2"
                /\ civic_listeners' = KeepTop(f_items, LISTENER_SET_SIZE)
                /\ UNCHANGED error
    /\ UNCHANGED <<seed_file, seed_set, i, follower_to_seed_handle_set, j,
                   influencer_to_listener_set, civic_influencers, k,
                   output_records, calls, rules_vars, csv_vars>>

\* One iteration of "for listener_id, _ in civic_listeners".
FetchFollowees ==
    /\ pc = "pass2"
    /\ j < Len(civic_listeners)
    /\ \E outcome \in RelationOutcomes(MAX_FRIENDS) :
          LET listener_id == civic_listeners[j + 1][1]
          IN  /\ influencer_to_listener_set' =
                     AddAll(influencer_to_listener_set,
                            id_to_followees(outcome), listener_id)
              /\ calls' = Append(calls, Call("followees_of", listener_id,
                                             outcome.ok, outcome.items, 0))
    /\ j' = j + 1
    /\ UNCHANGED <<pc, error, seed_file, seed_set, i,
                   follower_to_seed_handle_set, civic_listeners,
                   civic_influencers, k, output_records, rules_vars, csv_vars>>

\* Lines 157-167: rank the followees, log, keep the top INFLUENCER_SET_SIZE.
RankInfluencers ==
    /\ pc = "pass2"
    /\ j = Len(civic_listeners)
    /\ LET f_items == RankItems(influencer_to_listener_set)
       IN  IF f_items = <<>>
           THEN /\ pc' = "error"
                /\ error' = "IndexError:influencers"
                /\ UNCHANGED civic_influencers
           ELSE /\ pc' = "metadata"
                /\ civic_influencers' = KeepTop(f_items, INFLUENCER_SET_SIZE)
                /\ UNCHANGED error
    /\ UNCHANGED <<seed_file, seed_set, i, follower_to_seed_handle_set,
                   civic_listeners, j, influencer_to_listener_set, k,
                   output_records, calls, rules_vars, csv_vars>>

\* One iteration of "for influencer_id, num_civic_listeners in
\* civic_influencers".  Reading civic_odds_ratio of a record on which
\* add_civic_stats returned early is a KeyError.
FetchMetadata ==
    /\ pc = "metadata"
    /\ k < Len(civic_influencers)
    /\ \E outcome \in MetadataOutcomes :
          LET influencer_id == civic_influencers[k + 1][1]
              num_civic_listeners == civic_influencers[k + 1][2]
              r == add_civic_stats(influencer_id, outcome.followers_count,
                                   num_civic_listeners)
          IN  /\ calls' = Append(calls, Call("metadata_of", influencer_id,
                                             outcome.ok, <<>>,
                                             outcome.followers_count))
              /\ IF ~outcome.ok
                 THEN UNCHANGED <<pc, error, output_records>>
                 ELSE IF r.raised
                 THEN /\ pc' = "error"
                      /\ error' = "ZeroDivisionError"
                      /\ UNCHANGED output_records
                 ELSE IF "civic_odds_ratio" \notin r.json.keys
                 THEN /\ pc' = "error"
                      /\ error' = "KeyError:civic_odds_ratio"
                      /\ UNCHANGED output_records
                 ELSE /\ output_records' =
                            IF RatioGE(r.json.civic_odds_ratio, MIN_CIVIC_ODDS_RATIO)
                            THEN Append(output_records, r.json)
                            ELSE output_records
                      /\ UNCHANGED <<pc, error>>
    /\ k' = k + 1
    /\ UNCHANGED <<seed_file, seed_set, i, follower_to_seed_handle_set,
                   civic_listeners, j, influencer_to_listener_set,
                   civic_influencers, rules_vars, csv_vars>>

\* return output_records
Return ==
    /\ pc = "metadata"
    /\ k = Len(civic_influencers)
    /\ pc' = "done"
    /\ UNCHANGED <<error, seed_file, seed_set, i, follower_to_seed_handle_set,
                   civic_listeners, j, influencer_to_listener_set,
                   civic_influencers, k, output_records, calls, rules_vars,
                   csv_vars>>

Next ==
    \/ ReadSeedSet
    \/ FetchFollowers
    \/ RankListeners
    \/ FetchFollowees
    \/ RankInfluencers
    \/ FetchMetadata
    \/ Return

Spec == Init /\ [][Next]_vars

----------------------------------------------------------------------------
(* get_expanded_users: properties *)

CallsOf(op) == SelectSeq(calls, LAMBDA c : c.op = op)

\* What a call contributed: its items, or nothing when it failed.
Got(c) == IF c.ok THEN c.items ELSE <<>>

RECURSIVE Concat(_)
Concat(ss) == IF ss = <<>> THEN <<>> ELSE Head(ss) \o Concat(Tail(ss))

\* The ids of the calls of op, in the order they were received.
Seen(op) == LET cs == CallsOf(op) IN Concat([n \in DOMAIN cs |-> Got(cs[n])])

FirstSeen(op, id) == FirstIndex(Seen(op), {id})

\* Number of distinct keys of op whose result contains id.
Count(op, id) ==
    LET cs == CallsOf(op)
    IN  Cardinality({cs[n].key : n \in {m \in DOMAIN cs : id \in Range(Got(cs[m]))}})

\* a ranks before b: greater count, or equal count and seen first.
Before(op, a, b) ==
    \/ Count(op, a) > Count(op, b)
    \/ Count(op, a) = Count(op, b) /\ FirstSeen(op, a) < FirstSeen(op, b)

\* kept is the top `size` of the ids seen by op, each with its count.
IsTopRanking(kept, op, size) ==
    LET ids == [n \in DOMAIN kept |-> kept[n][1]]
    IN  /\ Len(kept) = Min2(size, Cardinality(Range(Seen(op))))
        /\ Range(ids) \subseteq Range(Seen(op))
        /\ \A n \in DOMAIN kept : kept[n][2] = Count(op, ids[n])
        /\ \A m, n \in DOMAIN kept : m < n => Before(op, ids[m], ids[n])
        /\ \A a \in Range(ids) : \A b \in Range(Seen(op)) \ Range(ids) :
              Before(op, a, b)

\* The step that ranked the listeners has just run.
ListenersRanked == pc = "pass2" /\ j = 0

\* The step that ranked the candidates has just run.
InfluencersRanked == pc = "metadata" /\ k = 0

\* The metadata stage is running or has ended.
InMetadataStage ==
    \/ pc \in {"metadata", "done"}
    \/ (pc = "error" /\ error \in {"KeyError:civic_odds_ratio", "ZeroDivisionError"})

\* C1: a candidate whose user record has followers_count = 0 is left without
\* civic_odds_ratio, is never emitted, and does not put the run in an error
\* state.
C1_ZeroFollowersSkipped ==
    \A n \in DOMAIN calls :
        (calls[n].op = "metadata_of" /\ calls[n].ok /\ calls[n].followers_count = 0)
            => /\ error = "none"
               /\ \A m \in DOMAIN output_records : output_records[m].id # calls[n].key

\* C2: whatever relation fetches fail, and also on an empty seed set, the
\* run does not end in an error of the ranking steps.
C2_RelationFailuresTolerated ==
    (\/ \E n \in DOMAIN calls :
            calls[n].op \in {"followers_of", "followees_of"} /\ ~calls[n].ok
     \/ (pc # "start" /\ error # "IndexError:read_seed_set" /\ seed_set = <<>>))
        => error \notin {"IndexError:listeners", "IndexError:influencers"}

\* C3: the kept listeners are at most LISTENER_SET_SIZE, each with the number
\* of distinct seed handles whose follower list holds it, in descending order
\* of that number and first-observed order among equals, and nothing
\* discarded ranks before something kept.
C3_ListenersTopRanked ==
    ListenersRanked =>
        /\ Len(civic_listeners) <= LISTENER_SET_SIZE
        /\ IsTopRanking(civic_listeners, "followers_of", LISTENER_SET_SIZE)

\* The cap discards a follower tied with a kept one, and the ranking is not
\* the order of observation.
C3_Witness ==
    /\ ListenersRanked
    /\ Len(follower_to_seed_handle_set.keys) > LISTENER_SET_SIZE
    /\ civic_listeners[1][2] > civic_listeners[2][2]
    /\ civic_listeners[1][1] # follower_to_seed_handle_set.keys[1]
    /\ \E b \in Range(follower_to_seed_handle_set.keys) :
          /\ \A n \in DOMAIN civic_listeners : civic_listeners[n][1] # b
          /\ Count("followers_of", b) = civic_listeners[2][2]

\* C4: the candidates are at most INFLUENCER_SET_SIZE, each with the number
\* of distinct kept listeners whose followee list holds it, ranked like the
\* listeners; only kept listeners were asked for their followees.
C4_InfluencersTopRanked ==
    InfluencersRanked =>
        /\ Len(civic_influencers) <= INFLUENCER_SET_SIZE
        /\ IsTopRanking(civic_influencers, "followees_of", INFLUENCER_SET_SIZE)
        /\ LET cs == CallsOf("followees_of")
           IN  {cs[n].key : n \in DOMAIN cs}
                  = {civic_listeners[n][1] : n \in DOMAIN civic_listeners}

\* Both caps applied, a followee repeated within one list, and a candidate
\* followed by two listeners.
C4_Witness ==
    /\ InfluencersRanked
    /\ Len(follower_to_seed_handle_set.keys) > LISTENER_SET_SIZE
    /\ Len(influencer_to_listener_set.keys) > INFLUENCER_SET_SIZE
    /\ \E n \in DOMAIN calls :
          /\ calls[n].op = "followees_of"
          /\ Len(calls[n].items) > Cardinality(Range(calls[n].items))

\* The relevance test of the claim, on integers:
\* (c / (INFLUENCER_SET_SIZE + 1 - c)) / (f / (NUM_TWITTER_USERS - f)) >= MIN
Relevant(c, f) ==
    c * (NUM_TWITTER_USERS - f)
        >= MIN_CIVIC_ODDS_RATIO * f * (INFLUENCER_SET_SIZE + 1 - c)

\* The candidates among the first n that are to be emitted.
RECURSIVE Emitted(_)
Emitted(n) ==
    IF n = 0 THEN <<>>
    ELSE LET c == CallsOf("metadata_of")[n]
         IN  IF c.ok /\ Relevant(civic_influencers[n][2], c.followers_count)
             THEN Append(Emitted(n - 1),
                         <<civic_influencers[n][1], civic_influencers[n][2]>>)
             ELSE Emitted(n - 1)

AllFollowerCountsInRange ==
    \A n \in DOMAIN calls :
        (calls[n].op = "metadata_of" /\ calls[n].ok)
            => (0 < calls[n].followers_count
                   /\ calls[n].followers_count < NUM_TWITTER_USERS)

\* C5: when every fetched record has 0 < followers_count < NUM_TWITTER_USERS,
\* the output is exactly the candidates, in rank order, whose metadata fetch
\* succeeded and whose civic_odds_ratio is >= MIN_CIVIC_ODDS_RATIO.
C5_OutputIsRelevantCandidates ==
    (InMetadataStage /\ AllFollowerCountsInRange) =>
        /\ error = "none"
        /\ Len(CallsOf("metadata_of")) = k
        /\ [n \in DOMAIN output_records |->
               <<output_records[n].id, output_records[n].civic_listeners>>]
              = Emitted(k)

\* A finished run in which a candidate's fetch failed and a later candidate
\* was emitted.
C5_Witness ==
    /\ pc = "done"
    /\ Len(civic_influencers) = 2
    /\ ~CallsOf("metadata_of")[1].ok
    /\ Len(output_records) = 1
    /\ output_records[1].id = civic_influencers[2][1]

ExactlyOnce(op, keys) ==
    LET cs == CallsOf(op)
    IN  /\ {cs[n].key : n \in DOMAIN cs} = keys
        /\ Len(cs) = Cardinality(keys)

Phased ==
    \A m, n \in DOMAIN calls :
        m < n =>
            /\ calls[m].op = "followees_of" => calls[n].op # "followers_of"
            /\ calls[m].op = "metadata_of" => calls[n].op = "metadata_of"

\* C9: in every run, followers_of is called once per seed handle, then
\* followees_of once per kept listener, then metadata_of once per candidate,
\* and for nothing else.
C9_CallsPhasedExactlyOnce ==
    /\ Phased
    /\ pc \in {"done", "error"} =>
          /\ ExactlyOnce("followers_of", Range(seed_set))
          /\ ExactlyOnce("followees_of",
                         {civic_listeners[n][1] : n \in DOMAIN civic_listeners})
          /\ ExactlyOnce("metadata_of",
                         {civic_influencers[n][1] : n \in DOMAIN civic_influencers})

\* C10: every candidate has 1 <= civic_listeners <= number of kept listeners
\* <= LISTENER_SET_SIZE <= INFLUENCER_SET_SIZE, so the denominator of the
\* civic odds is positive: no division by zero, no negative odds.
C10_CivicOddsDenominatorPositive ==
    /\ Len(civic_listeners) <= LISTENER_SET_SIZE
    /\ LISTENER_SET_SIZE <= INFLUENCER_SET_SIZE
    /\ \A n \in DOMAIN civic_influencers :
          /\ 1 <= civic_influencers[n][2]
          /\ civic_influencers[n][2] <= Len(civic_listeners)
          /\ INFLUENCER_SET_SIZE + 1 - civic_influencers[n][2] > 0
    /\ error # "ZeroDivisionError"
    /\ \A n \in DOMAIN output_records :
          /\ output_records[n].civic_odds_ratio.den > 0
          /\ output_records[n].civic_odds_ratio.num >= 0

\* add_civic_stats has scored a candidate followed by every one of
\* LISTENER_SET_SIZE listeners.
C10_Witness ==
    /\ Len(civic_listeners) = LISTENER_SET_SIZE
    /\ \E n \in DOMAIN output_records :
          output_records[n].civic_listeners = LISTENER_SET_SIZE

----------------------------------------------------------------------------
(* read_seed_set on its own *)

\* The three lines "@a", "a", " b ".
ExampleSeedFile == <<"@", "a", "\n", "a", "\n", " ", "b", " ">>

SeedFiles == SeqsUpTo(Chars, MaxFileLen) \cup {ExampleSeedFile}

InitSeed == ExpandStart(SeedFiles) /\ RulesIdle /\ CsvIdle

NextSeed == ReadSeedSet

SpecSeed == InitSeed /\ [][NextSeed]_vars

\* A line with something other than whitespace on it.
NonBlank(line) == Strip(line) # <<>>

\* A token without its leading "@".
StripAt(tok) == IF tok # <<>> /\ Head(tok) = "@" THEN Tail(tok) ELSE tok

\* The handles the file stands for: the first whitespace-delimited token of
\* each non-blank line, without its leading "@".
FirstTokens(content) ==
    LET lines == SelectSeq(SplitOn(content, "\n"), NonBlank)
    IN  {StripAt(SplitSpace(lines[n])[1]) : n \in DOMAIN lines}

\* C7: read_seed_set raises nothing and returns, without duplicates, the
\* first token of every non-blank line with its leading "@" stripped.
C7_SeedSetIsFirstTokens ==
    pc # "start" =>
        /\ error = "none"
        /\ Len(seed_set) = Cardinality(Range(seed_set))
        /\ Range(seed_set) = FirstTokens(seed_file)

----------------------------------------------------------------------------
(* handles_to_rules *)

ExpandIdle ==
    /\ pc = "idle"
    /\ error = "none"
    /\ seed_file = <<>>
    /\ seed_set = <<>>
    /\ i = 0
    /\ follower_to_seed_handle_set = EmptyDict
    /\ civic_listeners = <<>>
    /\ j = 0
    /\ influencer_to_listener_set = EmptyDict
    /\ civic_influencers = <<>>
    /\ k = 0
    /\ output_records = <<>>
    /\ calls = <<>>

\* Handle lists: n distinct handles, or n handles repeating with period 7.
HandleLists ==
    {[p \in 1..n |-> ToString(p)] : n \in 0..MaxHandles}
        \cup {[p \in 1..n |-> ToString(p % 7)] : n \in 0..MaxHandles}

RulesetNames == {"boston", "seed"}

\* Faulty variant: the chunk stops one handle early.
HandleSubsetShort(hs, start) ==
    SubSeq(hs, start + 1, Min2(Len(hs), start + NUM_HANDLES_PER_RULE - 1))

\* handles[i : min(len(handles), i + NUM_HANDLES_PER_RULE)]
HandleSubset(hs, start) ==
    SubSeq(hs, start + 1, Min2(Len(hs), start + NUM_HANDLES_PER_RULE))

\* " OR ".join([prefix + s for s in handle_subset]), as a list of tokens.
RECURSIVE JoinOr(_, _)
JoinOr(prefix, subset) ==
    IF subset = <<>> THEN <<>>
    ELSE IF Len(subset) = 1 THEN <<prefix, subset[1]>>
    ELSE <<prefix, Head(subset), " OR ">> \o JoinOr(prefix, Tail(subset))

\* "%d" % (i / NUM_HANDLES_PER_RULE): i is a multiple of the divisor, so the
\* quotient is whole and is printed as that integer.
ChunkIndex(start) == start \div NUM_HANDLES_PER_RULE

\* "<kind>_%s_%d" % (ruleset_name, i / NUM_HANDLES_PER_RULE)
Tag(kind, name, start) == <<kind, "_", name, "_", ChunkIndex(start)>>

make_rule(rule, tag) == [value |-> rule, tag |-> tag]

\* The payload appended for the chunk starting at `start`.
Update(hs, name, start) ==
    LET handle_subset == HandleSubset(hs, start)
    IN  [rules |-> << make_rule(JoinOr("from:", handle_subset),
                                Tag("from", name, start)),
                      make_rule(JoinOr("@", handle_subset),
                                Tag("at", name, start)),
                      make_rule(JoinOr("retweets_of:", handle_subset),
                                Tag("retweets_of", name, start)) >>]

InitRules ==
    /\ ExpandIdle
    /\ CsvIdle
    /\ handles \in HandleLists
    /\ ruleset_name \in RulesetNames
    /\ rule_i = 0
    /\ output_updates = <<>>
    /\ rules_pc = "loop"

\* One iteration of "for i in range(0, len(handles), NUM_HANDLES_PER_RULE)".
AppendUpdate ==
    /\ rules_pc = "loop"
    /\ rule_i < Len(handles)
    /\ output_updates' = Append(output_updates, Update(handles, ruleset_name, rule_i))
    /\ rule_i' = rule_i + NUM_HANDLES_PER_RULE
    /\ UNCHANGED <<handles, ruleset_name, rules_pc, expand_vars, csv_vars>>

\* return output_updates
ReturnUpdates ==
    /\ rules_pc = "loop"
    /\ rule_i >= Len(handles)
    /\ rules_pc' = "done"
    /\ UNCHANGED <<handles, ruleset_name, rule_i, output_updates, expand_vars,
                   csv_vars>>

NextRules == AppendUpdate \/ ReturnUpdates

SpecRules == InitRules /\ [][NextRules]_vars

\* The handles at positions c*NUM_HANDLES_PER_RULE ..
\* min(n, (c+1)*NUM_HANDLES_PER_RULE) - 1 (counted from 0) of the input.
Chunk(c) ==
    LET lo == c * NUM_HANDLES_PER_RULE
        hi == Min2(Len(handles), (c + 1) * NUM_HANDLES_PER_RULE)
    IN  [p \in 1..(hi - lo) |-> handles[lo + p]]

\* value reads prefix h1 OR prefix h2 OR ... over the handles hs.
IsClause(value, prefix, hs) ==
    /\ Len(value) = 3 * Len(hs) - 1
    /\ \A p \in DOMAIN hs :
          /\ value[3 * p - 2] = prefix
          /\ value[3 * p - 1] = hs[p]
          /\ p < Len(hs) => value[3 * p] = " OR "

----------------------------------------------------------------------------
(* influencers_to_csv *)

\* The records on standard input: the n-th is named n; the columns that are
\* only copied to the output (name, location, description) are left out.
CsvInputs ==
    UNION {{[p \in 1..n |-> [screen_name |-> p,
                             followers_count |-> f[p],
                             civic_odds_ratio |-> r[p]]] :
                f \in [1..n -> {19, 20, 21}], r \in [1..n -> {199, 200}]} :
           n \in 0..MaxLines}

\* Faulty variant: the relevance threshold is forgotten.
KeepsPopular(x) == ~(x.followers_count < MIN_FOLLOWERS_CSV)

\* Neither "continue" of the loop is taken for the record x.
Keeps(x) ==
    /\ ~(x.followers_count < MIN_FOLLOWERS_CSV)
    /\ ~(x.civic_odds_ratio < MIN_RATIO_CSV)

InitCsv ==
    /\ ExpandIdle
    /\ RulesIdle
    /\ stdin \in CsvInputs
    /\ line_no = 0
    /\ rows = <<>>
    /\ csv_rows = <<>>
    /\ csv_pc = "read"

\* One iteration of "for line in sys.stdin".
ReadLine ==
    /\ csv_pc = "read"
    /\ line_no < Len(stdin)
    /\ LET x == stdin[line_no + 1]
       IN  rows' = IF Keeps(x) THEN Append(rows, <<x.followers_count, x>>)
                               ELSE rows
    /\ line_no' = line_no + 1
    /\ UNCHANGED <<stdin, csv_rows, csv_pc, expand_vars, rules_vars>>

\* rows.sort(key = lambda x: x[0], reverse=True), then one row of the output
\* for each of rows[:500].
WriteRows ==
    /\ csv_pc = "read"
    /\ line_no = Len(stdin)
    /\ LET sorted == SortDesc(rows, [n \in DOMAIN rows |-> rows[n][1]])
       IN  /\ rows' = sorted
           /\ csv_rows' = [n \in 1..Min2(MAX_ROWS_CSV, Len(sorted)) |->
                              <<sorted[n][2].screen_name,
                                sorted[n][2].followers_count,
                                sorted[n][2].civic_odds_ratio>>]
    /\ csv_pc' = "done"
    /\ UNCHANGED <<stdin, line_no, expand_vars, rules_vars>>

NextCsv == ReadLine \/ WriteRows

SpecCsv == InitCsv /\ [][NextCsv]_vars

\* The input records that meet both thresholds.
Passing ==
    SelectSeq(stdin, LAMBDA x : x.followers_count >= 20 /\ x.civic_odds_ratio >= 200)

\* C8: no row has followers_count < 20 or civic_odds_ratio < 200, there are
\* at most 500 rows (MAX_ROWS_CSV in the model), in non-increasing order of
\* followers_count, and they are the first of the passing records in that
\* order: no passing record left out has more followers than a row.
C8_CsvRowsFilteredSortedCapped ==
    csv_pc = "done" =>
        /\ \A n \in DOMAIN csv_rows : csv_rows[n][2] >= 20 /\ csv_rows[n][3] >= 200
        /\ Len(csv_rows) <= MAX_ROWS_CSV
        /\ Len(csv_rows) = Min2(MAX_ROWS_CSV, Len(Passing))
        /\ \A m, n \in DOMAIN csv_rows : m < n => csv_rows[m][2] >= csv_rows[n][2]
        /\ \A m, n \in DOMAIN csv_rows : m # n => csv_rows[m][1] # csv_rows[n][1]
        /\ \A n \in DOMAIN csv_rows :
              \E p \in DOMAIN Passing :
                  csv_rows[n] = <<Passing[p].screen_name, Passing[p].followers_count,
                                  Passing[p].civic_odds_ratio>>
        /\ \A p \in DOMAIN Passing :
              (\A n \in DOMAIN csv_rows : csv_rows[n][1] # Passing[p].screen_name)
                  => \A n \in DOMAIN csv_rows :
                         Passing[p].followers_count <= csv_rows[n][2]

\* Records were dropped by each threshold and by the cap, and the sort moved
\* a later record to the front.
C8_Witness ==
    /\ csv_pc = "done"
    /\ Len(Passing) > MAX_ROWS_CSV
    /\ \E p \in DOMAIN stdin : stdin[p].followers_count < 20
    /\ csv_rows[1][1] # Passing[1].screen_name
    /\ csv_rows[1][2] > csv_rows[2][2]

====
